---- MODULE Spec2Model ----
(***************************************************************************)
(* Model of the GenAI fallback pipelines of imgprocalgs/algorithms/genai.py *)
(* (GenAIEnhancement.process and GenAIGhibliConverter.process).            *)
(*                                                                         *)
(* One invocation of process() is a walk of the program counter pc over    *)
(* the statements of the method.  The outcomes of the collaborators        *)
(* (requests, replicate, Pillow decoding and saving) are chosen            *)
(* nondeterministically at the statement that calls them.  The source      *)
(* image is taken to be a valid decoded image and the destination to be    *)
(* writable for it, so the local filter and its save succeed; a provider   *)
(* payload is arbitrary, so decoding or saving it may fail.                *)
(***************************************************************************)
EXTENDS Integers, Sequences, FiniteSets, TLC

VARIABLES
    kind,          \* which class runs: "Enhance" or "GhibliStyle"
    user_text,     \* self.user_text
    env,           \* os.environ restricted to the two tokens
    libAvail,      \* whether "import replicate" succeeds
    image,         \* self.image.image, the loaded source image
    dest,          \* content of the file at self.destination_path
    pc,            \* position inside process()
    prompt,        \* local variable prompt of GenAIGhibliConverter.process
    body,          \* response.content of the last 200 response
    output,        \* value returned by replicate.run
    arg,           \* argument handed to download_and_save_image / save_file_output
    output_image,  \* local variable output_image of the fallback
    calls,         \* log of transport invocations of this invocation
    failures,      \* log of provider failures of this invocation
    writes,        \* number of opens-for-write of the destination in this invocation
    via,           \* which return ended process(): "hf", "replicate", "local"
    prevLocal,     \* the previous invocation that ended in the local fallback
    image_path,    \* self.image_path
    destination_path, \* self.destination_path
    prevRemote     \* the previous invocation's normalization of a Replicate result

vars == <<kind, user_text, env, libAvail, image, dest, pc, prompt, body,
          output, arg, output_image, calls, failures, writes, via, prevLocal,
          image_path, destination_path, prevRemote>>

----------------------------------------------------------------------------
(* Bounds of the model *)

NumImages == 2
MaxListLen == 2

----------------------------------------------------------------------------
(* Values *)

None == "None"

Kinds == {"Enhance", "GhibliStyle"}

Instructions == {None, "", "totoro style"}

TokenValues == {None, "", "tok"}

Images == 1..NumImages

ByteVals == {"IMG_A", "IMG_B", "JUNK"}

STYLE_TOKEN == "ghibli style"

\* Python truthiness of an optional string
TruthyStr(s) == s # None /\ s # ""

\* Shapes of a single (non-list) value replicate.run can return
Atoms == {"None", "EmptyStr", "UrlStr", "FileOutput", "Stream", "UrlObj",
          "EmptyUrlObj", "Opaque"}

TruthyAtom(a) == a \notin {"None", "EmptyStr"}
HasRead(a) == a \in {"FileOutput", "Stream"}
HasUrlAttr(a) == a \in {"FileOutput", "UrlObj", "EmptyUrlObj"}
UrlTruthy(a) == a \in {"FileOutput", "UrlObj"}
IsStr(a) == a \in {"EmptyStr", "UrlStr"}

\* A raw result: a single value, or a list of which only the length and the
\* first element are ever inspected.
Single(a) == [isList |-> FALSE, atom |-> a, len |-> 0]
ListOf(a, n) == [isList |-> TRUE, atom |-> a, len |-> n]
NoOutput == Single("Unset")

Outputs == {Single(a) : a \in Atoms} \cup {ListOf("None", 0)}
           \cup {ListOf(a, n) : a \in Atoms, n \in 1..MaxListLen}

Truthy(o) == IF o.isList THEN o.len > 0 ELSE TruthyAtom(o.atom)

\* Images: a pixel source and the filters applied to it, in order
Img(i) == [px |-> i, filters |-> <<>>]
NoImage == [px |-> 0, filters |-> <<>>]
Copy(img) == [px |-> img.px, filters |-> img.filters]
Filter(img, f) == [img EXCEPT !.filters = Append(@, f)]

\* Contents of the destination file
Absent == [tag |-> "absent", origin |-> "none", bytes |-> "", img |-> NoImage]
Stale == [tag |-> "stale", origin |-> "prior", bytes |-> "", img |-> NoImage]
Empty(p) == [tag |-> "empty", origin |-> p, bytes |-> "", img |-> NoImage]
Partial(p) == [tag |-> "partial", origin |-> p, bytes |-> "", img |-> NoImage]
Raw(p, b) == [tag |-> "raw", origin |-> p, bytes |-> b, img |-> NoImage]
Decoded(p, b) == [tag |-> "image", origin |-> p, bytes |-> b, img |-> NoImage]
Saved(p, img) == [tag |-> "image", origin |-> p, bytes |-> "", img |-> img]

Decodable(b) == b # "JUNK"

Call(op, p, pr) == [op |-> op, provider |-> p, prompt |-> pr]
Failure(p, c) == [provider |-> p, cause |-> c]

----------------------------------------------------------------------------
(* Construction *)

\* Variant: the enhancement pipeline also starts with the Hugging Face attempt
EntryPc_AlwaysHuggingFace(k) == "build_prompt"

EntryPc(k) == IF k = "Enhance" THEN "rep_import" ELSE "build_prompt"

\* The paths the example and the tests construct the algorithms with
SourcePath == "tests/data/bird.jpg"
DestPath(k) ==
    IF k = "Enhance" THEN "data/genai_enhanced.jpg" ELSE "data/genai_ghibli.jpg"

Construct(k, ut, e, lib, i, d, prev) ==
    /\ kind = k
    /\ user_text = ut
    /\ env = e
    /\ libAvail = lib
    /\ image = Img(i)
    /\ dest = d
    /\ pc = EntryPc(k)
    /\ prompt = None
    /\ body = ""
    /\ output = NoOutput
    /\ arg = NoOutput
    /\ output_image = NoImage
    /\ calls = <<>>
    /\ failures = <<>>
    /\ writes = 0
    /\ via = "none"
    /\ prevLocal = prev
    /\ image_path = SourcePath
    /\ destination_path = DestPath(k)
    /\ prevRemote = {}

Envs == [REPLICATE_API_TOKEN : TokenValues, HUGGING_FACE_TOKEN : TokenValues]

Init ==
    \E k \in Kinds, ut \in Instructions, e \in Envs, lib \in BOOLEAN,
       i \in Images, d \in {Absent, Stale} :
        Construct(k, ut, e, lib, i, d, {})

----------------------------------------------------------------------------
(* Exception handlers of process() *)

\* Where an exception raised inside a provider's try block lands
\* Variant: the Hugging Face try block lets the exception escape
Catch_Propagates(p) == IF p = "hf" THEN "raised" ELSE "local"

\* Variant: a failed Hugging Face request is sent again
Catch_Retry(p) == IF p = "hf" THEN "hf_post" ELSE "local"

Catch(p) == IF p = "hf" THEN "rep_import" ELSE "local"

Raise(p, cause) ==
    /\ failures' = Append(failures, Failure(p, cause))
    /\ pc' = Catch(p)

----------------------------------------------------------------------------
(* GenAIGhibliConverter.process: prompt and Hugging Face attempt *)

\* Variant: the instruction is appended without the ", " separator
ComposePrompt_NoSeparator(ut) ==
    IF TruthyStr(ut) THEN STYLE_TOKEN \o ut ELSE STYLE_TOKEN

ComposePrompt(ut) ==
    IF TruthyStr(ut) THEN STYLE_TOKEN \o ", " \o ut ELSE STYLE_TOKEN

BuildPrompt ==
    /\ pc = "build_prompt"
    /\ prompt' = ComposePrompt(user_text)
    /\ pc' = "hf_check"
    /\ UNCHANGED <<image_path, destination_path, prevRemote,
                   kind, user_text, env, libAvail, image, dest, body, output,
                   arg, output_image, calls, failures, writes, via, prevLocal>>

HFCheck ==
    /\ pc = "hf_check"
    /\ pc' = IF TruthyStr(env.HUGGING_FACE_TOKEN) THEN "hf_post" ELSE "rep_import"
    /\ UNCHANGED <<image_path, destination_path, prevRemote,
                   kind, user_text, env, libAvail, image, dest, prompt, body,
                   output, arg, output_image, calls, failures, writes, via,
                   prevLocal>>

HFPost ==
    /\ pc = "hf_post"
    /\ calls' = Append(calls, Call("requests.post", "hf", prompt))
    /\ \/ /\ Raise("hf", "transport")
          /\ UNCHANGED body
       \/ \E b \in ByteVals :
            /\ body' = b
            /\ pc' = "hf_decode"
            /\ UNCHANGED failures
       \/ /\ failures' = Append(failures, Failure("hf", "status"))
          /\ pc' = "rep_import"
          /\ UNCHANGED body
    /\ UNCHANGED <<image_path, destination_path, prevRemote,
                   kind, user_text, env, libAvail, image, dest, prompt, output,
                   arg, output_image, writes, via, prevLocal>>

HFDecode ==
    /\ pc = "hf_decode"
    /\ IF Decodable(body)
         THEN pc' = "hf_save" /\ UNCHANGED failures
         ELSE Raise("hf", "decode")
    /\ UNCHANGED <<image_path, destination_path, prevRemote,
                   kind, user_text, env, libAvail, image, dest, prompt, body,
                   output, arg, output_image, calls, writes, via, prevLocal>>

\* Variant: the "return" after a successful Hugging Face save is missing
HFSave_NoReturn ==
    /\ pc = "hf_save"
    /\ \/ /\ dest' = Decoded("hf", body)
          /\ writes' = writes + 1
          /\ via' = "hf"
          /\ pc' = "rep_import"
          /\ UNCHANGED failures
       \/ /\ Raise("hf", "save")
          /\ UNCHANGED <<dest, writes, via>>
       \/ /\ Raise("hf", "save")
          /\ dest' = Partial("hf")
          /\ writes' = writes + 1
          /\ UNCHANGED via
    /\ UNCHANGED <<image_path, destination_path, prevRemote,
                   kind, user_text, env, libAvail, image, prompt, body, output,
                   arg, output_image, calls, prevLocal>>

HFSave ==
    /\ pc = "hf_save"
    /\ \/ /\ dest' = Decoded("hf", body)
          /\ writes' = writes + 1
          /\ via' = "hf"
          /\ pc' = "done"
          /\ UNCHANGED failures
       \/ /\ Raise("hf", "save")
          /\ UNCHANGED <<dest, writes, via>>
       \/ /\ Raise("hf", "save")
          /\ dest' = Partial("hf")
          /\ writes' = writes + 1
          /\ UNCHANGED via
    /\ UNCHANGED <<image_path, destination_path, prevRemote,
                   kind, user_text, env, libAvail, image, prompt, body, output,
                   arg, output_image, calls, prevLocal>>

----------------------------------------------------------------------------
(* Replicate attempt, common to both pipelines *)

\* Variant: no "except ImportError" clause
RepImport_Propagates ==
    /\ pc = "rep_import"
    /\ pc' = IF libAvail THEN "rep_check" ELSE "raised"
    /\ UNCHANGED <<image_path, destination_path, prevRemote,
                   kind, user_text, env, libAvail, image, dest, prompt, body,
                   output, arg, output_image, calls, failures, writes, via,
                   prevLocal>>

RepImport ==
    /\ pc = "rep_import"
    /\ pc' = IF libAvail THEN "rep_check" ELSE "local"
    /\ UNCHANGED <<image_path, destination_path, prevRemote,
                   kind, user_text, env, libAvail, image, dest, prompt, body,
                   output, arg, output_image, calls, failures, writes, via,
                   prevLocal>>

\* Variant: the token is tested against None only in the wrong sense
RepCheck_NoTokenTest ==
    /\ pc = "rep_check"
    /\ pc' = "rep_run"
    /\ UNCHANGED <<image_path, destination_path, prevRemote,
                   kind, user_text, env, libAvail, image, dest, prompt, body,
                   output, arg, output_image, calls, failures, writes, via,
                   prevLocal>>

RepCheck ==
    /\ pc = "rep_check"
    /\ pc' = IF TruthyStr(env.REPLICATE_API_TOKEN) THEN "rep_run" ELSE "local"
    /\ UNCHANGED <<image_path, destination_path, prevRemote,
                   kind, user_text, env, libAvail, image, dest, prompt, body,
                   output, arg, output_image, calls, failures, writes, via,
                   prevLocal>>

\* The prompt field of the input dictionary handed to replicate.run
RunPrompt(k, pr) == IF k = "GhibliStyle" THEN pr ELSE None

RepRun ==
    /\ pc = "rep_run"
    /\ calls' = Append(calls, Call("replicate.run", "replicate",
                                   RunPrompt(kind, prompt)))
    /\ \/ /\ Raise("replicate", "transport")
          /\ UNCHANGED output
       \/ \E o \in Outputs :
            /\ output' = o
            /\ pc' = "rep_output"
            /\ UNCHANGED failures
    /\ UNCHANGED <<image_path, destination_path, prevRemote,
                   kind, user_text, env, libAvail, image, dest, prompt, body,
                   arg, output_image, writes, via, prevLocal>>

\* GenAIEnhancement.process, "Output handling"
EnhanceOutput ==
    /\ pc = "rep_output"
    /\ kind = "Enhance"
    /\ IF Truthy(output)
         THEN /\ arg' = output
              /\ pc' = IF ~output.isList /\ HasRead(output.atom)
                         THEN "sfo_open" ELSE "download"
         ELSE /\ pc' = "local"
              /\ UNCHANGED arg
    /\ UNCHANGED <<image_path, destination_path, prevRemote,
                   kind, user_text, env, libAvail, image, dest, prompt, body,
                   output, output_image, calls, failures, writes, via,
                   prevLocal>>

\* GenAIGhibliConverter.process, choice of result from output
PickResult(o) ==
    IF o.isList /\ o.len > 0 THEN Single(o.atom)
    ELSE IF Truthy(o) THEN o
    ELSE Single("None")

\* GenAIGhibliConverter.process, "if result:" and its branches
GhibliOutput ==
    /\ pc = "rep_output"
    /\ kind = "GhibliStyle"
    /\ LET result == PickResult(output) IN
       IF Truthy(result)
         THEN IF ~result.isList /\ HasUrlAttr(result.atom) /\ UrlTruthy(result.atom)
                THEN /\ arg' = Single("UrlStr")
                     /\ pc' = "download"
                     /\ UNCHANGED via
              ELSE IF ~result.isList /\ HasRead(result.atom)
                THEN /\ arg' = result
                     /\ pc' = "sfo_open"
                     /\ UNCHANGED via
              ELSE IF ~result.isList /\ IsStr(result.atom)
                THEN /\ arg' = result
                     /\ pc' = "download"
                     /\ UNCHANGED via
              ELSE /\ via' = "replicate"
                   /\ pc' = "done"
                   /\ UNCHANGED arg
         ELSE /\ pc' = "local"
              /\ UNCHANGED <<arg, via>>
    /\ UNCHANGED <<image_path, destination_path, prevRemote,
                   kind, user_text, env, libAvail, image, dest, prompt, body,
                   output, output_image, calls, failures, writes, prevLocal>>

----------------------------------------------------------------------------
(* GenAIAlgorithm.download_and_save_image *)

\* requests.get is given something it can fetch only when it is a URL string
IsUrl(a) == ~a.isList /\ a.atom = "UrlStr"

DownloadGet ==
    /\ pc = "download"
    /\ IF IsUrl(arg)
         THEN /\ calls' = Append(calls, Call("requests.get", "replicate", None))
              /\ \/ /\ Raise("replicate", "fetch")
                    /\ UNCHANGED body
                 \/ /\ Raise("replicate", "status")
                    /\ UNCHANGED body
                 \/ \E b \in ByteVals :
                      /\ body' = b
                      /\ pc' = "dl_decode"
                      /\ UNCHANGED failures
         ELSE /\ Raise("replicate", "url")
              /\ UNCHANGED <<calls, body>>
    /\ UNCHANGED <<image_path, destination_path, prevRemote,
                   kind, user_text, env, libAvail, image, dest, prompt, output,
                   arg, output_image, writes, via, prevLocal>>

DownloadDecode ==
    /\ pc = "dl_decode"
    /\ IF Decodable(body)
         THEN pc' = "dl_save" /\ UNCHANGED failures
         ELSE Raise("replicate", "decode")
    /\ UNCHANGED <<image_path, destination_path, prevRemote,
                   kind, user_text, env, libAvail, image, dest, prompt, body,
                   output, arg, output_image, calls, writes, via, prevLocal>>

DownloadSave ==
    /\ pc = "dl_save"
    /\ \/ /\ dest' = Decoded("replicate", body)
          /\ writes' = writes + 1
          /\ via' = "replicate"
          /\ pc' = "done"
          /\ UNCHANGED failures
       \/ /\ Raise("replicate", "save")
          /\ UNCHANGED <<dest, writes, via>>
       \/ /\ Raise("replicate", "save")
          /\ dest' = Partial("replicate")
          /\ writes' = writes + 1
          /\ UNCHANGED via
    /\ UNCHANGED <<image_path, destination_path, prevRemote,
                   kind, user_text, env, libAvail, image, prompt, body, output,
                   arg, output_image, calls, prevLocal>>

----------------------------------------------------------------------------
(* GenAIAlgorithm.save_file_output *)

SaveFileOpen ==
    /\ pc = "sfo_open"
    /\ dest' = Empty("replicate")
    /\ writes' = writes + 1
    /\ pc' = "sfo_write"
    /\ UNCHANGED <<image_path, destination_path, prevRemote,
                   kind, user_text, env, libAvail, image, prompt, body, output,
                   arg, output_image, calls, failures, via, prevLocal>>

SaveFileWrite ==
    /\ pc = "sfo_write"
    /\ \/ /\ Raise("replicate", "read")
          /\ UNCHANGED <<dest, via>>
       \/ \E b \in ByteVals :
            /\ dest' = Raw("replicate", b)
            /\ via' = "replicate"
            /\ pc' = "done"
            /\ UNCHANGED failures
    /\ UNCHANGED <<image_path, destination_path, prevRemote,
                   kind, user_text, env, libAvail, image, prompt, body, output,
                   arg, output_image, calls, writes, prevLocal>>

----------------------------------------------------------------------------
(* Local fallback *)

\* Variant: a failed provider attempt changes the filter choice
LocalFilter_ByHistory(k) ==
    IF k = "Enhance" \/ Len(failures) > 0 THEN "SHARPEN" ELSE "SMOOTH_MORE"

LocalFilter(k) == IF k = "Enhance" THEN "SHARPEN" ELSE "SMOOTH_MORE"

\* Variant: the mock service applies the user instruction to the copy
MockGenaiProcess_UsesInstruction ==
    /\ pc = "local"
    /\ output_image' = IF TruthyStr(user_text)
                         THEN Filter(Copy(image), user_text)
                         ELSE Copy(image)
    /\ pc' = "local_filter"
    /\ UNCHANGED <<image_path, destination_path, prevRemote,
                   kind, user_text, env, libAvail, image, dest, prompt, body,
                   output, arg, calls, failures, writes, via, prevLocal>>

MockGenaiProcess ==
    /\ pc = "local"
    /\ output_image' = Copy(image)
    /\ pc' = "local_filter"
    /\ UNCHANGED <<image_path, destination_path, prevRemote,
                   kind, user_text, env, libAvail, image, dest, prompt, body,
                   output, arg, calls, failures, writes, via, prevLocal>>

\* Variant: the filter is applied to the loaded source image itself
ApplyLocalFilter_InPlace ==
    /\ pc = "local_filter"
    /\ image' = Filter(image, LocalFilter(kind))
    /\ output_image' = image'
    /\ pc' = "local_save"
    /\ UNCHANGED <<image_path, destination_path, prevRemote,
                   kind, user_text, env, libAvail, dest, prompt, body,
                   output, arg, calls, failures, writes, via, prevLocal>>

ApplyLocalFilter ==
    /\ pc = "local_filter"
    /\ output_image' = Filter(output_image, LocalFilter(kind))
    /\ pc' = "local_save"
    /\ UNCHANGED <<image_path, destination_path, prevRemote,
                   kind, user_text, env, libAvail, image, dest, prompt, body,
                   output, arg, calls, failures, writes, via, prevLocal>>

\* Variant: a destination already opened by a failed attempt is left as it is
LocalSave_KeepsOpened ==
    /\ pc = "local_save"
    /\ dest' = IF dest.tag \in {"empty", "partial"}
                 THEN dest ELSE Saved("local", output_image)
    /\ writes' = writes + 1
    /\ via' = "local"
    /\ pc' = "done"
    /\ UNCHANGED <<image_path, destination_path, prevRemote,
                   kind, user_text, env, libAvail, image, prompt, body, output,
                   arg, output_image, calls, failures, prevLocal>>

LocalSave ==
    /\ pc = "local_save"
    /\ dest' = Saved("local", output_image)
    /\ writes' = writes + 1
    /\ via' = "local"
    /\ pc' = "done"
    /\ UNCHANGED <<image_path, destination_path, prevRemote,
                   kind, user_text, env, libAvail, image, prompt, body, output,
                   arg, output_image, calls, failures, prevLocal>>

----------------------------------------------------------------------------
(* A further invocation: a new algorithm object is constructed and run in  *)
(* the same process, with the same environment and installed libraries    *)

LocalRun == [image |-> image, kind |-> kind, content |-> dest]

NewInvocation ==
    /\ pc = "done"
    /\ \E k \in Kinds, ut \in Instructions, i \in Images, d \in {Absent, Stale} :
         /\ kind' = k
         /\ user_text' = ut
         /\ image' = Img(i)
         /\ dest' = d
         /\ pc' = EntryPc(k)
         /\ destination_path' = DestPath(k)
    /\ image_path' = SourcePath
    /\ UNCHANGED <<env, libAvail, prevRemote>>
    /\ prompt' = None
    /\ body' = ""
    /\ output' = NoOutput
    /\ arg' = NoOutput
    /\ output_image' = NoImage
    /\ calls' = <<>>
    /\ failures' = <<>>
    /\ writes' = 0
    /\ via' = "none"
    /\ prevLocal' = IF via = "local" THEN {LocalRun} ELSE prevLocal

----------------------------------------------------------------------------
(* The same request is run again; the way the finished invocation          *)
(* normalized its Replicate result is remembered for comparison            *)

\* What the finished invocation made of the bytes of its Replicate result:
\* a stream whose bytes were written, or a URL string whose body was
\* decoded and saved or failed to decode
CurRemote ==
    IF pc = "done" /\ via = "replicate" /\ dest.tag = "raw"
         /\ ~output.isList /\ output.atom = "Stream"
      THEN {[shape |-> "stream", bytes |-> dest.bytes, accepted |-> TRUE,
             payload |-> dest.bytes]}
    ELSE IF pc = "done" /\ via = "replicate" /\ dest.tag = "image"
              /\ ~output.isList /\ output.atom = "UrlStr"
      THEN {[shape |-> "url", bytes |-> body, accepted |-> TRUE,
             payload |-> dest.bytes]}
    ELSE IF pc = "done" /\ via = "local"
              /\ ~output.isList /\ output.atom = "UrlStr"
              /\ \E j \in DOMAIN failures :
                    failures[j] = Failure("replicate", "decode")
      THEN {[shape |-> "url", bytes |-> body, accepted |-> FALSE,
             payload |-> ""]}
    ELSE {}

Rerun ==
    /\ pc = "done"
    /\ \E d \in {Absent, Stale} : dest' = d
    /\ pc' = EntryPc(kind)
    /\ prompt' = None
    /\ body' = ""
    /\ output' = NoOutput
    /\ arg' = NoOutput
    /\ output_image' = NoImage
    /\ calls' = <<>>
    /\ failures' = <<>>
    /\ writes' = 0
    /\ via' = "none"
    /\ prevLocal' = IF via = "local" THEN {LocalRun} ELSE prevLocal
    /\ prevRemote' = IF CurRemote # {} THEN CurRemote ELSE prevRemote
    /\ UNCHANGED <<kind, user_text, env, libAvail, image, image_path,
                   destination_path>>

----------------------------------------------------------------------------

Next ==
    \/ BuildPrompt
    \/ HFCheck
    \/ HFPost
    \/ HFDecode
    \/ HFSave
    \/ RepImport
    \/ RepCheck
    \/ RepRun
    \/ EnhanceOutput
    \/ GhibliOutput
    \/ DownloadGet
    \/ DownloadDecode
    \/ DownloadSave
    \/ SaveFileOpen
    \/ SaveFileWrite
    \/ MockGenaiProcess
    \/ ApplyLocalFilter
    \/ LocalSave
    \/ NewInvocation

Spec == Init /\ [][Next]_vars

\* Repeated runs of one request
NextPair ==
    \/ BuildPrompt
    \/ HFCheck
    \/ HFPost
    \/ HFDecode
    \/ HFSave
    \/ RepImport
    \/ RepCheck
    \/ RepRun
    \/ EnhanceOutput
    \/ GhibliOutput
    \/ DownloadGet
    \/ DownloadDecode
    \/ DownloadSave
    \/ SaveFileOpen
    \/ SaveFileWrite
    \/ MockGenaiProcess
    \/ ApplyLocalFilter
    \/ LocalSave
    \/ Rerun

SpecPair == Init /\ [][NextPair]_vars

----------------------------------------------------------------------------
(* Properties *)

HFFailed == \E j \in DOMAIN failures : failures[j].provider = "hf"
ReplicateFailed == \E j \in DOMAIN failures : failures[j].provider = "replicate"
Invoked(op) == \E j \in DOMAIN calls : calls[j].op = op

\* The local approximation of the source image for the running kind
SharpenedSource == Saved("local", [px |-> image.px, filters |-> <<"SHARPEN">>])
SmoothedSource == Saved("local", [px |-> image.px, filters |-> <<"SMOOTH_MORE">>])
ExpectedLocal == IF kind = "Enhance" THEN SharpenedSource ELSE SmoothedSource

\* A payload of this invocation is in the destination
PayloadWritten ==
    /\ dest.tag \in {"image", "raw"}
    /\ dest.origin \in {"hf", "replicate", "local"}

\* C1: for every kind, credential configuration, library availability and
\* provider outcome, when process() returns an output has been written to
\* the destination path by this invocation.
C1_OutputAlwaysWritten ==
    pc = "done" => (writes >= 1 /\ PayloadWritten)

\* C2: in one invocation exactly one payload is written to the destination,
\* counting every open-for-write or save of it: never none, never more than one.
C2_ExactlyOneWrite ==
    pc = "done" => writes = 1

\* C3: no failure of a provider attempt propagates out of process(); every
\* failure is a transition to the next candidate (Replicate after Hugging
\* Face, the local approximation after Replicate).
C3_FailuresAbsorbed ==
    [][Len(failures') > Len(failures) =>
         /\ pc' # "raised"
         /\ failures'[Len(failures')].provider = "hf" => pc' = "rep_import"
         /\ failures'[Len(failures')].provider = "replicate" => pc' = "local"]_vars

C3_Witness ==
    /\ pc = "done"
    /\ via = "local"
    /\ HFFailed
    /\ ReplicateFailed

\* C4: for GhibliStyle with both credentials set, Replicate is invoked only
\* after the Hugging Face attempt has failed, and when the Hugging Face
\* attempt fails the destination holds the Replicate payload or, if Replicate
\* also fails, the local approximation, never the Hugging Face payload.
C4_PriorityOrder ==
    (/\ kind = "GhibliStyle"
     /\ env.HUGGING_FACE_TOKEN = "tok"
     /\ env.REPLICATE_API_TOKEN = "tok") =>
        /\ Invoked("replicate.run") =>
             (calls[1].op = "requests.post" /\ HFFailed)
        /\ (pc = "done" /\ HFFailed) =>
             \/ via = "replicate" /\ dest.origin = "replicate"
                                  /\ dest.tag \in {"image", "raw"}
             \/ via = "local" /\ dest = SmoothedSource

\* C5: with no provider credential set, process() makes no transport
\* invocation and the destination holds the local approximation of the
\* source image (SHARPEN for Enhance, SMOOTH_MORE for GhibliStyle).
C5_SkipOnAbsence ==
    (env.REPLICATE_API_TOKEN = None /\ env.HUGGING_FACE_TOKEN = None) =>
        /\ calls = <<>>
        /\ pc = "done" => (via = "local" /\ dest = ExpectedLocal)

C5_Witness ==
    /\ env.REPLICATE_API_TOKEN = None
    /\ env.HUGGING_FACE_TOKEN = None
    /\ libAvail
    /\ pc = "done"
    /\ dest = ExpectedLocal

\* C6: when the replicate library cannot be imported, the Replicate
\* candidate is skipped whether or not its token is set: replicate.run is
\* never invoked, nothing is raised or recorded as a Replicate failure, and
\* the pipeline goes on to the local approximation.
C6_LibraryUnavailable ==
    ~libAvail =>
        /\ ~Invoked("replicate.run")
        /\ ~ReplicateFailed
        /\ pc \notin {"raised", "rep_check", "rep_run", "rep_output",
                      "download", "dl_decode", "dl_save", "sfo_open",
                      "sfo_write"}
        /\ pc = "done" => via \in {"hf", "local"}
        /\ (pc = "done" /\ via = "local") => dest = ExpectedLocal

C6_Witness ==
    /\ ~libAvail
    /\ env.REPLICATE_API_TOKEN = "tok"
    /\ pc = "done"
    /\ via = "local"

\* C7: for GhibliStyle the prompt of the Hugging Face request and of the
\* Replicate request is "ghibli style, <instruction>" when an instruction is
\* present and "ghibli style" alone when it is None or empty.
C7_PromptComposition ==
    kind = "GhibliStyle" =>
        \A j \in DOMAIN calls :
            calls[j].op \in {"requests.post", "replicate.run"} =>
                /\ user_text = "totoro style" =>
                     calls[j].prompt = "ghibli style, totoro style"
                /\ user_text \in {None, ""} =>
                     calls[j].prompt = "ghibli style"

C7_Witness ==
    /\ kind = "GhibliStyle"
    /\ user_text = "totoro style"
    /\ Invoked("requests.post")
    /\ Invoked("replicate.run")

\* C8: whenever the local approximation is applied the filter is fixed by
\* the kind alone (SHARPEN for Enhance, SMOOTH_MORE for GhibliStyle),
\* whatever providers were skipped, attempted or failed before.
C8_FilterByKindOnly ==
    /\ pc = "local_save" =>
         output_image.filters =
             <<IF kind = "Enhance" THEN "SHARPEN" ELSE "SMOOTH_MORE">>
    /\ dest.origin = "local" =>
         dest.img.filters =
             <<IF kind = "Enhance" THEN "SHARPEN" ELSE "SMOOTH_MORE">>

C8_Witness ==
    /\ kind = "GhibliStyle"
    /\ dest.origin = "local"
    /\ HFFailed
    /\ ReplicateFailed

\* C9: two invocations that both end in the local fallback, on the same
\* source image and the same kind, write identical content.
C9_LocalDeterministic ==
    \A r \in prevLocal :
        (pc = "done" /\ via = "local" /\ r.image = image /\ r.kind = kind) =>
            dest = r.content

C9_Witness ==
    \E r \in prevLocal :
        /\ pc = "done"
        /\ via = "local"
        /\ r.image = image
        /\ r.kind = kind
        /\ TruthyStr(user_text)
        /\ Len(failures) > 0

\* A result the normalizer cannot use: null or empty, an empty sequence, or
\* an object (alone or first in a sequence) with neither a usable URL nor a
\* readable stream
UnusableAtoms == {"None", "EmptyStr", "EmptyUrlObj", "Opaque"}
Unusable(o) ==
    /\ o # NoOutput
    /\ IF o.isList THEN o.len = 0 \/ o.atom \in UnusableAtoms
                   ELSE o.atom \in UnusableAtoms
FetchRejected ==
    \E j \in DOMAIN failures :
        failures[j].provider = "replicate" /\ failures[j].cause = "status"

\* C10: when a provider's transport call succeeds but its result cannot be
\* normalized, the attempt counts as failed and the pipeline goes on to the
\* next candidate or the local approximation; the invocation never ends on
\* such a result.
C10_UnusableResultFallsBack ==
    (pc = "done" /\ (Unusable(output) \/ FetchRejected)) => via = "local"

\* The single value the normalization rules look at: the result itself or
\* the first element of a non-empty sequence
FirstOf(o) == IF o.isList /\ o.len = 0 THEN "None" ELSE o.atom
DownloadPcs == {"download", "dl_decode", "dl_save"}
StreamPcs == {"sfo_open", "sfo_write"}
HFPcs == {"hf_check", "hf_post", "hf_decode", "hf_save"}
ReplicatePcs == {"rep_import", "rep_check", "rep_run", "rep_output"}
                \cup DownloadPcs \cup StreamPcs
Count(op) == Cardinality({j \in DOMAIN calls : calls[j].op = op})

\* C11: in both pipelines a result that exposes a readable stream is taken
\* by reading the stream, also when it exposes a URL too: no URL fetch is
\* made for it.
C11_StreamBeforeUrl ==
    (~output.isList /\ output.atom \in {"FileOutput", "Stream"}) =>
        /\ ~Invoked("requests.get")
        /\ pc \notin DownloadPcs
        /\ (pc = "done" /\ via = "replicate") => dest.tag = "raw"

\* C12: in both pipelines a non-empty sequence whose first element is a
\* usable URL or stream is normalized through that element; it leads to the
\* fallback only when fetching, reading, decoding or saving that element fails.
C12_SequenceFirstElement ==
    (/\ output.isList
     /\ output.len > 0
     /\ output.atom \in {"UrlStr", "UrlObj", "FileOutput", "Stream"}
     /\ pc \in {"local", "local_filter", "local_save", "done"}
     /\ via \in {"none", "local"}) =>
        \E j \in DOMAIN failures :
            /\ failures[j].provider = "replicate"
            /\ failures[j].cause \in {"fetch", "status", "read", "decode", "save"}

\* C13: a stream-shaped result and a URL-string-shaped result that yield
\* the same bytes have the same outcome: both accepted or both rejected, and
\* when accepted the same image payload is written.
C13_ShapeEquivalence ==
    \A r \in prevRemote, c \in CurRemote :
        (r.shape # c.shape /\ r.bytes = c.bytes) =>
            /\ r.accepted = c.accepted
            /\ r.accepted => r.payload = c.payload

\* C14: every payload a provider attempt writes to the destination has
\* first been decoded as an image; bytes that are not a decodable image are
\* never written as the output.
C14_ProviderPayloadDecoded ==
    dest.origin \in {"hf", "replicate"} =>
        /\ dest.tag # "raw"
        /\ dest.tag = "image" => dest.bytes \in {"IMG_A", "IMG_B"}

\* C15: within one invocation each provider's transport is invoked at most
\* once, and a provider that has failed is not entered again: the pipeline
\* is past it.
C15_NoRetry ==
    /\ Count("requests.post") <= 1
    /\ Count("replicate.run") <= 1
    /\ Count("requests.get") <= 1
    /\ HFFailed => pc \notin HFPcs
    /\ ReplicateFailed => pc \notin (HFPcs \cup ReplicatePcs)

C15_Witness ==
    /\ pc = "done"
    /\ HFFailed
    /\ ReplicateFailed
    /\ Count("requests.post") = 1
    /\ Count("replicate.run") = 1

\* C16: the first success ends the invocation: once a provider's payload
\* has been written, process() has returned through that provider, no later
\* provider has been invoked and the local approximation has not been applied.
C16_FirstSuccessEnds ==
    (dest.origin \in {"hf", "replicate"} /\ dest.tag \in {"image", "raw"}) =>
        /\ pc = "done"
        /\ via = dest.origin
        /\ output_image = NoImage
        /\ dest.origin = "hf" => ~Invoked("replicate.run")
        /\ calls[Len(calls)].provider = dest.origin

C16_Witness ==
    /\ dest.origin = "hf"
    /\ dest.tag = "image"
    /\ env.REPLICATE_API_TOKEN = "tok"
    /\ libAvail
    /\ pc = "done"

\* C17: process() leaves the request unchanged on every path: the loaded
\* source image, the image path, the destination path and the user
\* instruction keep their values at every step of an invocation; the local
\* filter works on a copy.
C17_RequestUnchanged ==
    [][pc # "done" =>
         /\ image' = image
         /\ image_path' = image_path
         /\ destination_path' = destination_path
         /\ user_text' = user_text]_vars

C17_Witness ==
    /\ pc = "done"
    /\ via = "local"
    /\ image.filters = <<>>
    /\ dest.img.filters # <<>>
    /\ dest.img.px = image.px

\* C18: for Enhance the Hugging Face provider is never a candidate; with
\* HUGGING_FACE_TOKEN set and REPLICATE_API_TOKEN unset the enhancement
\* makes no provider invocation and writes the sharpened source.
C18_EnhanceSkipsHuggingFace ==
    kind = "Enhance" =>
        /\ pc \notin (HFPcs \cup {"build_prompt"})
        /\ \A j \in DOMAIN calls : calls[j].provider # "hf"
        /\ (env.HUGGING_FACE_TOKEN = "tok" /\ env.REPLICATE_API_TOKEN = None) =>
             /\ calls = <<>>
             /\ pc = "done" => dest = SharpenedSource

C18_Witness ==
    /\ kind = "Enhance"
    /\ env.HUGGING_FACE_TOKEN = "tok"
    /\ env.REPLICATE_API_TOKEN = None
    /\ libAvail
    /\ pc = "done"
    /\ dest = SharpenedSource

\* C19: whenever process() returns through the local fallback the
\* destination holds exactly the local approximation of the source image,
\* also when a failed provider attempt had already opened or partly written it.
C19_LocalOverwrites ==
    (pc = "done" /\ via = "local") =>
        /\ dest.tag = "image"
        /\ dest.origin = "local"
        /\ dest.img.px = image.px
        /\ kind = "Enhance" => dest.img.filters = <<"SHARPEN">>
        /\ kind = "GhibliStyle" => dest.img.filters = <<"SMOOTH_MORE">>

C19_Witness ==
    /\ pc = "done"
    /\ via = "local"
    /\ writes >= 2
    /\ \E j \in DOMAIN failures : failures[j].cause = "read"

====
